---------------------------- MODULE Spec2Model ----------------------------
(***************************************************************************)
(* Delivery Reminder lifecycle of purchase_enhancements                    *)
(* (src/purchase_enhancements/reminder_service.py, class ReminderManager). *)
(*                                                                         *)
(* The database tables the manager reads and writes are the state:         *)
(*   po_item_qty    tabPurchase Order Item.qty, by purchase order item     *)
(*   receipts       tabPurchase Receipt with its item rows and docstatus   *)
(*   reminders      tabDelivery Reminder, by document name                 *)
(*   last_name      the naming counter of Delivery Reminder                *)
(*   notifications  tabNotification Log                                    *)
(*   outbox         the mails handed to frappe.sendmail                    *)
(*   settings       the Purchase Enhancement Settings document             *)
(*   today          nowdate(), as a day number                             *)
(*   esc            the position of an escalation sweep that runs          *)
(*                  concurrently with the document hooks (SpecConc only)   *)
(*   procs          the position of each receipt's _process_document when  *)
(*                  two requests run side by side (SpecRace only)          *)
(*   cache          frappe.cache(), by key (api.py, SpecHistory only)      *)
(*   history_reply  the last call of get_item_project_history and what it  *)
(*                  returned (SpecHistory only)                            *)
(* Dates are day numbers, quantities are whole units.                      *)
(***************************************************************************)
EXTENDS Integers, Sequences, FiniteSets, TLC

VARIABLES po_item_qty, receipts, reminders, last_name, notifications,
          outbox, settings, today, esc, procs, cache, history_reply

vars == <<po_item_qty, receipts, reminders, last_name, notifications,
          outbox, settings, today, esc, procs, cache, history_reply>>

\* What the reminder jobs of one request at a time leave alone
aux_vars == <<procs, cache, history_reply>>

---------------------------------------------------------------------------
(* Bounds of the model *)

MaxReceipts == 2
MaxReminders == 2
MaxDay == 1
MaxMails == 1
MaxCancelled == 1
CleanupAfterDays == 0

---------------------------------------------------------------------------
(* The purchase orders the receipts are booked against *)

NoRef == "none"
\* A purchase order without schedule_date
NoDate == 0 - 1

POItems == {"a1", "a2", "b1"}
PurchaseOrders == {"PO-A", "PO-B"}

\* Purchase Order Item.parent
PurchaseOrderOf(poi) == IF poi = "b1" THEN "PO-B" ELSE "PO-A"

\* Purchase Order.owner
OwnerOf(po) == IF po = "PO-A" THEN "alice" ELSE "bob"

\* Purchase Order.schedule_date; PO-B has none
ScheduleDateOf(po) == IF po = "PO-A" THEN 5 ELSE NoDate

\* Purchase Order Item.item_code
ItemCodeOf(poi) == IF poi = "a2" THEN "ITEM-2" ELSE "ITEM-1"

\* A row of a receipt: item.purchase_order_item, item.purchase_order, item.qty
Row(poi, q) ==
    [purchase_order_item |-> poi,
     purchase_order |-> IF poi = NoRef THEN NoRef ELSE PurchaseOrderOf(poi),
     item_code |-> IF poi = NoRef THEN "ITEM-1" ELSE ItemCodeOf(poi),
     qty |-> q]

\* The item tables of the receipts that are booked: a partial delivery, a
\* delivery split over two rows, a delivery for two purchase orders, and a
\* delivery with a row that references no purchase order
ReceiptShapes ==
    { <<Row("a1", 1)>>,
      <<Row("a1", 1), Row("a1", 1)>>,
      <<Row("a2", 2), Row("b1", 1)>>,
      <<Row(NoRef, 1), Row("a2", 1)>> }

\* Purchase Order Item.qty as ordered
OrderedAsBooked == [i \in POItems |-> IF i = "a1" THEN 3 ELSE 2]

Levels == {"First", "Second", "Final"}
Priorities == {"Low", "Medium", "High", "Critical"}

---------------------------------------------------------------------------
(* Helpers of the reminder manager *)

RECURSIVE SumQty(_)
SumQty(rows) ==
    IF rows = <<>> THEN 0 ELSE Head(rows).qty + SumQty(Tail(rows))

\* The rows of one receipt that reference the purchase order item
RowsFor(rcpt, poi) ==
    SelectSeq(rcpt.items, LAMBDA row : row.purchase_order_item = poi)

RECURSIVE SumAllReceipts(_, _)
SumAllReceipts(rs, poi) ==
    IF rs = <<>> THEN 0
    ELSE SumQty(RowsFor(Head(rs), poi)) + SumAllReceipts(Tail(rs), poi)

RECURSIVE SumReceipts(_, _)
SumReceipts(rs, poi) ==
    IF rs = <<>> THEN 0
    ELSE (IF Head(rs).docstatus = 1 THEN SumQty(RowsFor(Head(rs), poi)) ELSE 0)
         + SumReceipts(Tail(rs), poi)

\* (variant: the sum without the docstatus condition)
get_total_received_qty_any_docstatus(po_item_name) ==
    SumAllReceipts(receipts, po_item_name)

\* SELECT SUM(qty) FROM `tabPurchase Receipt Item`
\*  WHERE purchase_order_item = %s AND docstatus = 1
get_total_received_qty(po_item_name) == SumReceipts(receipts, po_item_name)

\* frappe.db.get_value("Purchase Order Item", name, "qty") or 0
OrderedQty(po_item_name) ==
    IF po_item_name \in DOMAIN po_item_qty THEN po_item_qty[po_item_name] ELSE 0

\* (variant: the lookup without the status filter)
find_existing_reminder_any_status(rems, po_item_name) ==
    { n \in DOMAIN rems : rems[n].purchase_order_item = po_item_name }

\* The names get_value("Delivery Reminder", {purchase_order_item, status: Open})
\* can return: one of the matching documents, none when nothing matches
find_existing_reminder(rems, po_item_name) ==
    { n \in DOMAIN rems : /\ rems[n].purchase_order_item = po_item_name
                          /\ rems[n].status = "Open" }

\* (variant: the comparison with > for >=)
PercentAbove(pending_qty, ordered_qty, pct) ==
    pending_qty * 100 > pct * ordered_qty

\* (flt(pending_qty) / flt(ordered_qty)) * 100 >= pct, for ordered_qty > 0
PercentAtLeast(pending_qty, ordered_qty, pct) ==
    pending_qty * 100 >= pct * ordered_qty

calculate_priority(pending_qty, po_item_name) ==
    LET ordered_qty == IF OrderedQty(po_item_name) = 0 THEN 1
                       ELSE OrderedQty(po_item_name)
    IN  IF PercentAtLeast(pending_qty, ordered_qty,
                          settings.critical_priority_percentage) THEN "Critical"
        ELSE IF PercentAtLeast(pending_qty, ordered_qty,
                               settings.high_priority_percentage) THEN "High"
        ELSE IF PercentAtLeast(pending_qty, ordered_qty,
                               settings.medium_priority_percentage) THEN "Medium"
        ELSE "Low"

\* add_days(nowdate(), n)
add_days(d, n) == d + n


---------------------------------------------------------------------------
(* CRUD helpers.  Each takes and returns the Delivery Reminder table. *)

\* reminder.update({...}); reminder.insert(): the new document
create_reminder(name, item_row, pending_qty, doc_name) ==
    [name |-> name,
     purchase_order |-> item_row.purchase_order,
     purchase_order_item |-> item_row.purchase_order_item,
     item_code |-> item_row.item_code,
     pending_qty |-> pending_qty,
     status |-> "Open",
     triggering_receipt |-> doc_name,
     expected_delivery_date |->
         IF ScheduleDateOf(item_row.purchase_order) # NoDate
         THEN ScheduleDateOf(item_row.purchase_order)
         ELSE add_days(today, 7),
     priority |-> calculate_priority(pending_qty, item_row.purchase_order_item),
     reminder_level |-> "First",
     next_follow_up_date |-> add_days(today, settings.default_follow_up_days),
     modified |-> today]

\* (variant: an update that also classifies the new pending quantity)
update_reminder_reclassified(rems, reminder_name, pending_qty) ==
    [rems EXCEPT ![reminder_name].pending_qty = pending_qty,
                 ![reminder_name].priority =
                     calculate_priority(pending_qty,
                                        rems[reminder_name].purchase_order_item),
                 ![reminder_name].modified = today]

\* frappe.db.set_value(..., "pending_qty", pending_qty); it stamps `modified`
update_reminder(rems, reminder_name, pending_qty) ==
    [rems EXCEPT ![reminder_name].pending_qty = pending_qty,
                 ![reminder_name].modified = today]

\* frappe.db.set_value(..., "status", "Closed"); it stamps `modified`
close_reminder(rems, reminder_name) ==
    [rems EXCEPT ![reminder_name].status = "Closed",
                 ![reminder_name].modified = today]

\* The table with one more document
Insert(rems, doc) ==
    [n \in DOMAIN rems \cup {doc.name} |-> IF n = doc.name THEN doc ELSE rems[n]]

---------------------------------------------------------------------------
(* _process_document.  A processing state is the reminder table, the naming *)
(* counter and notifications_to_send (names of the reminders created).     *)

\* (variant: the test with < for <=)
fulfilled_below_zero(pending_qty) == pending_qty < 0

\* (variant: the branch for a fulfilled item is never taken)
fulfilled_never(pending_qty) == FALSE

\* if pending_qty <= 0
fulfilled(pending_qty) == pending_qty <= 0

\* The loop body for one row; the set of states it can lead to
process_item(s, item, doc_name) ==
    IF item.purchase_order_item = NoRef THEN {s}
    ELSE
      LET poi == item.purchase_order_item
          pending_qty == OrderedQty(poi) - get_total_received_qty(poi)
          existing == find_existing_reminder(s.reminders, poi)
      IN  IF fulfilled(pending_qty)
          THEN IF existing # {}
               THEN { [s EXCEPT !.reminders = close_reminder(s.reminders, n)]
                        : n \in existing }
               ELSE {s}
          ELSE IF existing # {}
               THEN { [s EXCEPT !.reminders =
                                   update_reminder(s.reminders, n, pending_qty)]
                        : n \in existing }
               ELSE { [reminders |->
                          Insert(s.reminders,
                                 create_reminder(s.last_name + 1, item,
                                                 pending_qty, doc_name)),
                       last_name |-> s.last_name + 1,
                       created |-> Append(s.created, s.last_name + 1)] }

RECURSIVE process_items(_, _, _)
process_items(S, items, doc_name) ==
    IF items = <<>> THEN S
    ELSE process_items(UNION { process_item(s, Head(items), doc_name) : s \in S },
                       Tail(items), doc_name)

\* (variant: one entry per reminder, without the grouping by owner)
OwnersInOrder_ungrouped(rems, names) ==
    [k \in 1..Len(names) |-> OwnerOf(rems[names[k]].purchase_order)]

\* _send_consolidated_notifications: one Notification Log per owner, in the
\* order the owners first appear; document_name is the owner's first reminder
RECURSIVE OwnersInOrder(_, _)
OwnersInOrder(rems, names) ==
    IF names = <<>> THEN <<>>
    ELSE LET rest == OwnersInOrder(rems, Tail(names))
             o == OwnerOf(rems[Head(names)].purchase_order)
         IN  <<o>> \o SelectSeq(rest, LAMBDA x : x # o)

send_consolidated_notifications(rems, names) ==
    LET owners == OwnersInOrder(rems, names)
        listOf(o) == SelectSeq(names,
                        LAMBDA n : OwnerOf(rems[n].purchase_order) = o)
    IN  [k \in 1..Len(owners) |->
            [for_user |-> owners[k],
             document_name |-> Head(listOf(owners[k])),
             listed |-> listOf(owners[k])]]

\* The states _process_document(doc) can end in
process_document(r) ==
    process_items({[reminders |-> reminders, last_name |-> last_name,
                    created |-> <<>>]},
                  receipts[r].items, r)

---------------------------------------------------------------------------
(* The escalation sweep as a process (used by SpecConc).  frappe stamps    *)
(* `modified` with a datetime; the model keeps its day in the document and  *)
(* records in esc.stale whether the stored stamp has moved since the sweep  *)
(* loaded its document, i.e. whether another writer touched it since.      *)

NoDoc == [name |-> 0]

EscIdle == [pc |-> "idle", queue |-> <<>>, doc |-> NoDoc, stale |-> FALSE]

\* reminder n is written (or deleted) by the step
Written(n) ==
    \/ n \notin DOMAIN reminders'
    \/ n \in DOMAIN reminders /\ reminders'[n] # reminders[n]

\* A write of another transaction to the document the sweep holds
EscObserves ==
    esc' = IF esc.pc = "loaded" /\ Written(esc.doc.name)
           THEN [esc EXCEPT !.stale = TRUE]
           ELSE esc

---------------------------------------------------------------------------
(* Settings *)

Flags == {"enable_auto_reminders", "auto_escalate_enabled",
          "auto_cleanup_enabled", "send_daily_digest",
          "archive_closed_reminders"}

\* The sets of flags that are on in the settings a site saves: all jobs on
\* and deleting, one job off, all jobs off, all jobs on and archiving
AllJobs == {"enable_auto_reminders", "auto_escalate_enabled",
            "auto_cleanup_enabled", "send_daily_digest"}
FlagProfiles ==
    {AllJobs, {}} \cup { AllJobs \ {f} : f \in AllJobs }
              \cup {AllJobs \cup {"archive_closed_reminders"}}

\* The (default_follow_up_days, digest_recipients) a site is configured with
SettingsProfiles ==
    { <<0, <<"buyer@example.com", " ">> >>, <<-1, <<"">> >> }

DefaultSettings(profile) ==
    [enable_auto_reminders |-> TRUE,
     auto_escalate_enabled |-> TRUE,
     auto_cleanup_enabled |-> TRUE,
     send_daily_digest |-> TRUE,
     archive_closed_reminders |-> FALSE,
     default_follow_up_days |-> profile[1],
     cleanup_after_days |-> CleanupAfterDays,
     critical_priority_percentage |-> 80,
     high_priority_percentage |-> 50,
     medium_priority_percentage |-> 25,
     digest_recipients |-> profile[2],
     enable_purchase_history |-> TRUE,
     history_cache_duration |-> 600,
     max_history_items |-> 5]

---------------------------------------------------------------------------
(* Initial state: the purchase orders exist, nothing is received *)

\* A request that is not processing a receipt
ProcIdle == [pc |-> "idle", k |-> 0, pending_qty |-> 0, existing |-> {},
             created |-> <<>>]

\* No call of get_item_project_history yet
NoReply == [args |-> <<>>, kind |-> "none", rows |-> <<>>, queried |-> FALSE]

\* No request under way, an empty cache
InitAux ==
    /\ procs = [r \in 1..MaxReceipts |-> ProcIdle]
    /\ cache = {}
    /\ history_reply = NoReply

Init ==
    /\ po_item_qty = OrderedAsBooked
    /\ receipts = <<>>
    /\ reminders = <<>>
    /\ last_name = 0
    /\ notifications = <<>>
    /\ outbox = <<>>
    /\ \E profile \in SettingsProfiles : settings = DefaultSettings(profile)
    /\ today = 0
    /\ esc = EscIdle
    /\ InitAux

---------------------------------------------------------------------------
(* What happens around the manager *)

\* A Purchase Receipt with these rows is submitted (docstatus 1)
SubmitReceipt(shape) ==
    /\ Len(receipts) < MaxReceipts
    /\ receipts' = Append(receipts, [docstatus |-> 1, items |-> shape])
    /\ UNCHANGED <<po_item_qty, reminders, last_name, notifications, outbox,
                   settings, today, esc>>
    /\ UNCHANGED aux_vars

\* A submitted Purchase Receipt is cancelled (docstatus 2)
CancelReceipt(r) ==
    /\ r \in 1..Len(receipts)
    /\ receipts[r].docstatus = 1
    /\ Cardinality({k \in 1..Len(receipts) : receipts[k].docstatus = 2})
         < MaxCancelled
    /\ receipts' = [receipts EXCEPT ![r].docstatus = 2]
    /\ UNCHANGED <<po_item_qty, reminders, last_name, notifications, outbox,
                   settings, today, esc>>
    /\ UNCHANGED aux_vars

\* Purchase Enhancement Settings is saved with other flags
ChangeSettings(flags) ==
    /\ flags \in FlagProfiles
    /\ settings' = [f \in DOMAIN settings |->
                       IF f \in Flags THEN f \in flags ELSE settings[f]]
    /\ UNCHANGED <<po_item_qty, receipts, reminders, last_name, notifications,
                   outbox, today, esc>>
    /\ UNCHANGED aux_vars

\* The date changes
Tick ==
    /\ today < MaxDay
    /\ today' = today + 1
    /\ UNCHANGED <<po_item_qty, receipts, reminders, last_name, notifications,
                   outbox, settings, esc>>
    /\ UNCHANGED aux_vars

---------------------------------------------------------------------------
(* Public entry points.  For each, what a call leaves in the tables it     *)
(* writes, and the step that is the call.                                  *)

\* update_reminders_for_receipt(doc): the outcomes of a call for receipt r
update_reminders_result(r) ==
    IF ~settings.enable_auto_reminders
    THEN { [reminders |-> reminders, last_name |-> last_name,
            notifications |-> notifications] }
    ELSE { [reminders |-> s.reminders,
            last_name |-> s.last_name,
            notifications |->
                IF s.created # <<>>
                THEN notifications \o
                     send_consolidated_notifications(s.reminders, s.created)
                ELSE notifications]
           : s \in process_document(r) }

update_reminders_for_receipt(r) ==
    /\ r \in 1..Len(receipts)
    /\ \E res \in update_reminders_result(r) :
          /\ res.last_name <= MaxReminders
          /\ reminders' = res.reminders
          /\ last_name' = res.last_name
          /\ notifications' = res.notifications
    /\ EscObserves
    /\ UNCHANGED <<po_item_qty, receipts, outbox, settings, today>>
    /\ UNCHANGED aux_vars

\* (variant: the query without the purchase_order filter)
close_reminders_for_any_po(rems, po) ==
    [n \in DOMAIN rems |->
        IF rems[n].status = "Open" THEN close_reminder(rems, n)[n] ELSE rems[n]]

\* _close_reminders_for_po
close_reminders_for_po(rems, po) ==
    [n \in DOMAIN rems |->
        IF rems[n].purchase_order = po /\ rems[n].status = "Open"
        THEN close_reminder(rems, n)[n]
        ELSE rems[n]]

handle_po_cancellation(po) ==
    /\ po \in PurchaseOrders
    /\ reminders' = close_reminders_for_po(reminders, po)
    /\ EscObserves
    /\ UNCHANGED <<po_item_qty, receipts, last_name, notifications, outbox,
                   settings, today>>
    /\ UNCHANGED aux_vars

---------------------------------------------------------------------------
(* Scheduled tasks *)

\* (variant: the filter with <= for <)
OverdueOrDue(doc) == doc.status = "Open" /\ doc.next_follow_up_date <= today

\* filters = {"status": "Open", "next_follow_up_date": ["<", nowdate()]}
Overdue(doc) == doc.status = "Open" /\ doc.next_follow_up_date < today

\* (variant: "Second" is the default and only "Second" goes on to "Final")
NextLevelDefaultSecond(level) == IF level = "Second" THEN "Final" ELSE "Second"

\* new_level: "Final" unless the level is "First"
NextLevel(level) == IF level = "First" THEN "Second" ELSE "Final"

\* (variant: the save without the new next_follow_up_date)
Escalated_keeps_date(doc) ==
    [doc EXCEPT !.reminder_level = NextLevel(doc.reminder_level),
                !.priority = "Critical",
                !.modified = today]

\* The loaded document after the three assignments, as reminder.save() writes it
Escalated(doc) ==
    [doc EXCEPT !.reminder_level = NextLevel(doc.reminder_level),
                !.priority = "Critical",
                !.next_follow_up_date =
                    add_days(today, settings.default_follow_up_days),
                !.modified = today]

\* _escalate_overdue, run without another writer in between
escalate_overdue(rems) ==
    [n \in DOMAIN rems |-> IF Overdue(rems[n]) THEN Escalated(rems[n]) ELSE rems[n]]

\* (variant: the call without the settings check)
escalate_overdue_ungated == escalate_overdue(reminders)

\* escalate_overdue_reminders(): the reminder table after the call
escalate_overdue_result ==
    IF ~settings.auto_escalate_enabled THEN reminders
    ELSE escalate_overdue(reminders)

escalate_overdue_reminders ==
    /\ reminders' = escalate_overdue_result
    /\ UNCHANGED <<po_item_qty, receipts, last_name, notifications, outbox,
                   settings, today, esc>>
    /\ UNCHANGED aux_vars

\* (variant: the entries taken as they are split)
Strip_nothing(email) == email

\* email.strip()
Strip(email) == IF email = " " THEN "" ELSE email

\* [email.strip() for email in ....split(',') if email.strip()]
Recipients(entries) ==
    LET kept == SelectSeq(entries, LAMBDA e : Strip(e) # "")
    IN  [k \in 1..Len(kept) |-> Strip(kept[k])]

\* frappe.db.count("Delivery Reminder", filters)
CountOpen(rems) == Cardinality({n \in DOMAIN rems : rems[n].status = "Open"})
CountCritical(rems) ==
    Cardinality({n \in DOMAIN rems : /\ rems[n].status = "Open"
                                     /\ rems[n].priority = "Critical"})

\* _send_daily_digest: the mails it hands to frappe.sendmail
send_daily_digest ==
    LET recipients == Recipients(settings.digest_recipients)
    IN  IF recipients = <<>> \/ CountOpen(reminders) = 0 THEN <<>>
        ELSE << [recipients |-> recipients,
                 open_count |-> CountOpen(reminders),
                 critical_count |-> CountCritical(reminders)] >>

\* send_daily_reminder_digest(): the mails of a call
send_daily_digest_result ==
    IF ~settings.send_daily_digest THEN <<>> ELSE send_daily_digest

send_daily_reminder_digest ==
    /\ Len(outbox) + Len(send_daily_digest_result) <= MaxMails
    /\ outbox' = outbox \o send_daily_digest_result
    /\ UNCHANGED <<po_item_qty, receipts, reminders, last_name, notifications,
                   settings, today, esc>>
    /\ UNCHANGED aux_vars

\* (variant: the filter with <= for <)
old_reminders_up_to_cutoff(rems) ==
    LET cutoff_date == add_days(today, -settings.cleanup_after_days)
    IN  { n \in DOMAIN rems : /\ rems[n].status = "Closed"
                              /\ rems[n].modified <= cutoff_date }

\* filters = {"status": "Closed", "modified": ["<", cutoff_date]}
old_reminders(rems) ==
    LET cutoff_date == add_days(today, -settings.cleanup_after_days)
    IN  { n \in DOMAIN rems : /\ rems[n].status = "Closed"
                              /\ rems[n].modified < cutoff_date }

\* _cleanup_closed: the archive branch is a placeholder that does nothing
cleanup_closed(rems) ==
    IF settings.archive_closed_reminders THEN rems
    ELSE [n \in (DOMAIN rems) \ old_reminders(rems) |-> rems[n]]

\* cleanup_closed_reminders(): the reminder table after the call
cleanup_closed_result ==
    IF ~settings.auto_cleanup_enabled THEN reminders
    ELSE cleanup_closed(reminders)

cleanup_closed_reminders ==
    /\ reminders' = cleanup_closed_result
    /\ EscObserves
    /\ UNCHANGED <<po_item_qty, receipts, last_name, notifications, outbox,
                   settings, today>>
    /\ UNCHANGED aux_vars

---------------------------------------------------------------------------
(* The specification in which every entry point runs to completion *)

Next ==
    \/ \E shape \in ReceiptShapes : SubmitReceipt(shape)
    \/ \E r \in 1..MaxReceipts : CancelReceipt(r)
    \/ \E flags \in FlagProfiles : ChangeSettings(flags)
    \/ Tick
    \/ \E r \in 1..MaxReceipts : update_reminders_for_receipt(r)
    \/ \E po \in PurchaseOrders : handle_po_cancellation(po)
    \/ escalate_overdue_reminders
    \/ send_daily_reminder_digest
    \/ cleanup_closed_reminders

Spec == Init /\ [][Next]_vars

---------------------------------------------------------------------------
(* The escalation sweep step by step: the query, then for each row of the  *)
(* result get_doc and save, with the document hooks and the cleanup job     *)
(* running in between.                                                     *)

RECURSIVE SeqOf(_)
SeqOf(S) ==
    IF S = {} THEN <<>>
    ELSE LET n == CHOOSE x \in S : \A y \in S : x <= y
         IN  <<n>> \o SeqOf(S \ {n})

\* overdue_reminders = frappe.get_all(...)
EscQuery ==
    /\ esc.pc = "idle"
    /\ settings.auto_escalate_enabled
    /\ esc' = [pc |-> "loop",
               queue |-> SeqOf({n \in DOMAIN reminders : Overdue(reminders[n])}),
               doc |-> NoDoc, stale |-> FALSE]
    /\ UNCHANGED <<po_item_qty, receipts, reminders, last_name, notifications,
                   outbox, settings, today>>
    /\ UNCHANGED aux_vars

\* reminder = frappe.get_doc("Delivery Reminder", r_data.name); a document that
\* is gone raises DoesNotExistError and ends the sweep
EscLoad ==
    /\ esc.pc = "loop"
    /\ esc.queue # <<>>
    /\ esc' = IF Head(esc.queue) \in DOMAIN reminders
              THEN [esc EXCEPT !.pc = "loaded",
                               !.doc = reminders[Head(esc.queue)],
                               !.stale = FALSE]
              ELSE EscIdle
    /\ UNCHANGED <<po_item_qty, receipts, reminders, last_name, notifications,
                   outbox, settings, today>>
    /\ UNCHANGED aux_vars

\* (variant: a save that does not compare the stamps)
check_exists_only(doc, stale) == doc.name \in DOMAIN reminders

\* Document.save() checks that the stored `modified` is the one it loaded
\* (check_if_latest) and raises TimestampMismatchError otherwise
check_if_latest(doc, stale) == doc.name \in DOMAIN reminders /\ ~stale

\* reminder.save(ignore_permissions=True): the whole loaded document is written
EscSave ==
    /\ esc.pc = "loaded"
    /\ IF check_if_latest(esc.doc, esc.stale)
       THEN /\ reminders' = [reminders EXCEPT ![esc.doc.name] = Escalated(esc.doc)]
            /\ esc' = [pc |-> "loop", queue |-> Tail(esc.queue),
                       doc |-> NoDoc, stale |-> FALSE]
       ELSE /\ esc' = EscIdle
            /\ UNCHANGED reminders
    /\ UNCHANGED <<po_item_qty, receipts, last_name, notifications, outbox,
                   settings, today>>
    /\ UNCHANGED aux_vars

\* The loop is through
EscDone ==
    /\ esc.pc = "loop"
    /\ esc.queue = <<>>
    /\ esc' = EscIdle
    /\ UNCHANGED <<po_item_qty, receipts, reminders, last_name, notifications,
                   outbox, settings, today>>
    /\ UNCHANGED aux_vars

NextConc ==
    \/ \E shape \in ReceiptShapes : SubmitReceipt(shape)
    \/ \E r \in 1..MaxReceipts : CancelReceipt(r)
    \/ Tick
    \/ \E r \in 1..MaxReceipts : update_reminders_for_receipt(r)
    \/ \E po \in PurchaseOrders : handle_po_cancellation(po)
    \/ cleanup_closed_reminders
    \/ EscQuery
    \/ EscLoad
    \/ EscSave
    \/ EscDone

SpecConc == Init /\ [][NextConc]_vars

---------------------------------------------------------------------------
(* The priority classifier over its inputs: the ordered quantity of a1 and  *)
(* the three thresholds are drawn, then receipts are booked and processed.  *)

Percentages == {0, 25, 50, 80, 101}
MaxOrdered == 5

InitPriority ==
    /\ \E q \in 1..MaxOrdered : po_item_qty = [OrderedAsBooked EXCEPT !["a1"] = q]
    /\ receipts = <<>>
    /\ reminders = <<>>
    /\ last_name = 0
    /\ notifications = <<>>
    /\ outbox = <<>>
    /\ \E c, h, m \in Percentages :
          settings = [DefaultSettings(<<0, <<"">> >>) EXCEPT
                         !.critical_priority_percentage = c,
                         !.high_priority_percentage = h,
                         !.medium_priority_percentage = m]
    /\ today = 0
    /\ esc = EscIdle
    /\ InitAux

NextPriority ==
    \/ \E shape \in ReceiptShapes : SubmitReceipt(shape)
    \/ \E r \in 1..MaxReceipts : CancelReceipt(r)
    \/ \E r \in 1..MaxReceipts : update_reminders_for_receipt(r)

SpecPriority == InitPriority /\ [][NextPriority]_vars

---------------------------------------------------------------------------
(* The purchase-history lookup (api.py) and the invalidation of its cache   *)
(* (reminder_service.py, _clear_cache_for_po).  A cache entry is a key and  *)
(* the value stored under it; a key is the sequence of the parts that the   *)
(* f-string joins with "_".                                                 *)

\* Purchase Order Item.project, Purchase Order.company and .transaction_date
ProjectOf(poi) == IF poi = "a2" THEN "P2" ELSE "P1"
CompanyOf(po) == "C1"
TransactionDateOf(po) == IF po = "PO-A" THEN 1 ELSE 2

\* The arguments the lookup is called with; "" is a missing argument, and
\* limit is given as cint(limit)
ItemCodes == {"", "ITEM-1", "ITEM-2"}
Projects == {"", "P1", "P2"}
Companies == {"", "C1"}
Limits == {0, 3}
HistoryArgs == ItemCodes \X Projects \X Companies \X Limits

\* The names bound in get_item_project_history when line 21 is evaluated: its
\* parameters, the locals assigned above it, the module's imports
NamesInScope == {"item_code", "project", "company", "limit", "settings",
                 "cache_duration", "frappe", "cint", "traceback"}

NameError == <<"NameError">>

\* cint(limit) or settings.max_history_items or 5
effective_limit(limit) ==
    IF limit # 0 THEN limit
    ELSE IF settings.max_history_items # 0 THEN settings.max_history_items
    ELSE 5

\* f"item_history_{item_code}_{project}_{company}_{supplier}_{limit}"
lookup_cache_key(item_code, project, company, limit) ==
    IF "supplier" \in NamesInScope
    THEN <<"item_history", item_code, project, company, "supplier", limit>>
    ELSE NameError

\* f"item_history_{item.item_code}_{item.project}_{po_doc.company}_{...}"
cleared_cache_key(poi) ==
    <<"item_history", ItemCodeOf(poi), ProjectOf(poi),
      CompanyOf(PurchaseOrderOf(poi)), settings.max_history_items>>

\* frappe.cache().get_value(key): None when nothing is stored
cache_get(c, key) ==
    IF \E e \in c : e.key = key
    THEN (CHOOSE e \in c : e.key = key).value
    ELSE <<>>

\* frappe.cache().set_value(key, value, expires_in_sec)
cache_set(c, key, value) ==
    {e \in c : e.key # key} \cup {[key |-> key, value |-> value]}

\* frappe.cache().delete_value(key)
cache_delete(c, keys) == {e \in c : e.key \notin keys}

\* The SELECT with its two derived columns, newest purchase order first
history_rows(item_code, project, company) ==
    LET match == { i \in POItems : /\ ItemCodeOf(i) = item_code
                                   /\ ProjectOf(i) = project
                                   /\ CompanyOf(PurchaseOrderOf(i)) = company }
        row(i) ==
            LET pending == po_item_qty[i] - SumReceipts(receipts, i)
            IN  [purchase_order |-> PurchaseOrderOf(i),
                 item_code |-> item_code,
                 qty |-> po_item_qty[i],
                 received_qty |-> SumReceipts(receipts, i),
                 pending_qty |-> pending,
                 delivery_status |->
                     IF pending <= 0 THEN "Completed" ELSE "Pending"]
        newest(S) == CHOOSE i \in S : \A j \in S :
                        TransactionDateOf(PurchaseOrderOf(i))
                           >= TransactionDateOf(PurchaseOrderOf(j))
        ordered[S \in SUBSET match] ==
            IF S = {} THEN <<>>
            ELSE <<row(newest(S))>> \o ordered[S \ {newest(S)}]
    IN  ordered[match]

\* get_item_project_history run against cache c: what it returns (a list of
\* rows, or the {"error": ..., "trace": ...} of `except Exception`), the
\* cache it leaves, and whether it ran the SELECT
history_result(c, args) ==
    LET item_code == args[1]
        project == args[2]
        company == args[3]
        limit == effective_limit(args[4])
        cache_key == lookup_cache_key(item_code, project, company, limit)
    IN  IF item_code = "" \/ project = "" \/ company = ""
        THEN [kind |-> "list", rows |-> <<>>, cache |-> c, queried |-> FALSE]
        ELSE IF ~settings.enable_purchase_history
        THEN [kind |-> "list", rows |-> <<>>, cache |-> c, queried |-> FALSE]
        ELSE IF cache_key = NameError
        THEN [kind |-> "error", rows |-> <<>>, cache |-> c, queried |-> FALSE]
        ELSE IF cache_get(c, cache_key) # <<>>
        THEN [kind |-> "list", rows |-> cache_get(c, cache_key), cache |-> c,
              queried |-> FALSE]
        ELSE LET history == history_rows(item_code, project, company)
             IN  [kind |-> "list", rows |-> history,
                  cache |-> cache_set(c, cache_key, history),
                  queried |-> TRUE]

get_item_project_history(args) ==
    /\ args \in HistoryArgs
    /\ LET out == history_result(cache, args)
       IN  /\ cache' = out.cache
           /\ history_reply' = [args |-> args, kind |-> out.kind,
                                rows |-> out.rows, queried |-> out.queried]
    /\ UNCHANGED <<po_item_qty, receipts, reminders, last_name, notifications,
                   outbox, settings, today, esc, procs>>

\* The keys _clear_cache_for_po deletes for a purchase order
cleared_keys(po) == { cleared_cache_key(i) : i \in {j \in POItems : PurchaseOrderOf(j) = po} }

\* clear_item_history_cache(doc)
clear_item_history_cache(po) ==
    /\ po \in PurchaseOrders
    /\ cache' = cache_delete(cache, cleared_keys(po))
    /\ UNCHANGED <<po_item_qty, receipts, reminders, last_name, notifications,
                   outbox, settings, today, esc, procs, history_reply>>

\* The settings of the lookup a site is configured with
InitHistory ==
    /\ po_item_qty = OrderedAsBooked
    /\ receipts = <<>>
    /\ reminders = <<>>
    /\ last_name = 0
    /\ notifications = <<>>
    /\ outbox = <<>>
    /\ \E on \in BOOLEAN : \E items \in {0, 3, 5} :
          settings = [DefaultSettings(<<0, <<"">> >>) EXCEPT
                         !.enable_purchase_history = on,
                         !.max_history_items = items]
    /\ today = 0
    /\ esc = EscIdle
    /\ InitAux

NextHistory ==
    \/ \E shape \in ReceiptShapes : SubmitReceipt(shape)
    \/ \E args \in HistoryArgs : get_item_project_history(args)
    \/ \E po \in PurchaseOrders : clear_item_history_cache(po)

SpecHistory == InitHistory /\ [][NextHistory]_vars

---------------------------------------------------------------------------
(* Receipt processing over receipts whose rows span several items of one    *)
(* purchase order and both purchase orders, for the notifications.          *)

NotifyShapes ==
    ReceiptShapes \cup { <<Row("a1", 1), Row("a2", 1)>>,
                         <<Row("a1", 1), Row("b1", 1), Row("a2", 1)>> }

NextNotify ==
    \/ \E shape \in NotifyShapes : SubmitReceipt(shape)
    \/ \E r \in 1..MaxReceipts : CancelReceipt(r)
    \/ \E r \in 1..MaxReceipts : update_reminders_for_receipt(r)
    \/ \E po \in PurchaseOrders : handle_po_cancellation(po)

SpecNotify == Init /\ [][NextNotify]_vars

---------------------------------------------------------------------------
(* _process_document row by row, for receipts that are submitted by         *)
(* different requests at the same time: each request reads the quantities   *)
(* and looks up the existing reminder (lines 48-52), and then writes (lines *)
(* 54-63); the other request's steps can fall in between.                   *)

\* update_reminders_for_receipt(doc) is entered: the settings check passes
ProcBegin(r) ==
    /\ r \in 1..Len(receipts)
    /\ procs[r].pc = "idle"
    /\ settings.enable_auto_reminders
    /\ procs' = [procs EXCEPT ![r] = [ProcIdle EXCEPT !.pc = "row", !.k = 1]]
    /\ UNCHANGED <<po_item_qty, receipts, reminders, last_name, notifications,
                   outbox, settings, today, esc, cache, history_reply>>

\* The reads of the loop body for row k; a row without purchase_order_item
\* is skipped
ProcLookup(r) ==
    /\ r \in 1..Len(receipts)
    /\ procs[r].pc = "row"
    /\ procs[r].k <= Len(receipts[r].items)
    /\ LET item == receipts[r].items[procs[r].k]
           poi == item.purchase_order_item
       IN  IF poi = NoRef
           THEN procs' = [procs EXCEPT ![r].k = @ + 1]
           ELSE \E existing \in
                     IF find_existing_reminder(reminders, poi) = {} THEN {{}}
                     ELSE { {n} : n \in find_existing_reminder(reminders, poi) } :
                   procs' = [procs EXCEPT
                                ![r].pc = "act",
                                ![r].pending_qty =
                                    OrderedQty(poi) - get_total_received_qty(poi),
                                ![r].existing = existing]
    /\ UNCHANGED <<po_item_qty, receipts, reminders, last_name, notifications,
                   outbox, settings, today, esc, cache, history_reply>>

\* The branch of the loop body for row k, on what the reads returned
ProcAct(r) ==
    /\ r \in 1..Len(receipts)
    /\ procs[r].pc = "act"
    /\ LET item == receipts[r].items[procs[r].k]
           pending_qty == procs[r].pending_qty
           existing == procs[r].existing
           next == [procs[r] EXCEPT !.pc = "row", !.k = @ + 1,
                                    !.pending_qty = 0, !.existing = {}]
       IN  IF fulfilled(pending_qty)
           THEN /\ reminders' = IF existing # {}
                                THEN close_reminder(reminders,
                                                    CHOOSE n \in existing : TRUE)
                                ELSE reminders
                /\ procs' = [procs EXCEPT ![r] = next]
                /\ UNCHANGED last_name
           ELSE IF existing # {}
           THEN /\ reminders' = update_reminder(reminders,
                                                CHOOSE n \in existing : TRUE,
                                                pending_qty)
                /\ procs' = [procs EXCEPT ![r] = next]
                /\ UNCHANGED last_name
           ELSE /\ last_name < MaxReminders
                /\ reminders' = Insert(reminders,
                                       create_reminder(last_name + 1, item,
                                                       pending_qty, r))
                /\ last_name' = last_name + 1
                /\ procs' = [procs EXCEPT ![r] =
                                [next EXCEPT !.created =
                                    Append(@, last_name + 1)]]
    /\ UNCHANGED <<po_item_qty, receipts, notifications, outbox, settings,
                   today, esc, cache, history_reply>>

\* The loop is through: the consolidated notifications, if any
ProcEnd(r) ==
    /\ r \in 1..Len(receipts)
    /\ procs[r].pc = "row"
    /\ procs[r].k > Len(receipts[r].items)
    /\ notifications' =
          IF procs[r].created # <<>>
          THEN notifications \o
               send_consolidated_notifications(reminders, procs[r].created)
          ELSE notifications
    /\ procs' = [procs EXCEPT ![r] = [ProcIdle EXCEPT !.pc = "done"]]
    /\ UNCHANGED <<po_item_qty, receipts, reminders, last_name, outbox,
                   settings, today, esc, cache, history_reply>>

NextRace ==
    \/ \E shape \in ReceiptShapes : SubmitReceipt(shape)
    \/ \E r \in 1..MaxReceipts : ProcBegin(r)
    \/ \E r \in 1..MaxReceipts : ProcLookup(r)
    \/ \E r \in 1..MaxReceipts : ProcAct(r)
    \/ \E r \in 1..MaxReceipts : ProcEnd(r)

SpecRace == Init /\ [][NextRace]_vars

---------------------------------------------------------------------------
(* Vocabulary of the properties, defined on the tables alone *)

\* Quantity of the rows of one item table that reference purchase order item i
RowsQty(items, i) ==
    LET f[k \in 0..Len(items)] ==
            IF k = 0 THEN 0
            ELSE f[k - 1] + (IF items[k].purchase_order_item = i
                             THEN items[k].qty ELSE 0)
    IN  f[Len(items)]

\* Cumulative received quantity: the rows of the submitted receipts
ReceivedQty(i) ==
    LET g[k \in 0..Len(receipts)] ==
            IF k = 0 THEN 0
            ELSE g[k - 1] + (IF receipts[k].docstatus = 1
                             THEN RowsQty(receipts[k].items, i) ELSE 0)
    IN  g[Len(receipts)]

\* Pending quantity: ordered minus cumulative received
PendingOf(i) == po_item_qty[i] - ReceivedQty(i)

\* The purchase order items the rows of receipt r reference
ItemsOf(r) ==
    { receipts[r].items[k].purchase_order_item : k \in DOMAIN receipts[r].items }
        \ {NoRef}

OpenFor(rems, i) ==
    { n \in DOMAIN rems : rems[n].purchase_order_item = i /\ rems[n].status = "Open" }

\* The reminders a call created
NewIn(res) == DOMAIN res.reminders \ DOMAIN reminders

---------------------------------------------------------------------------
(* C1: Create on first shortfall.  When update_reminders_for_receipt        *)
(* processes a receipt with enable_auto_reminders on, then for every        *)
(* purchase order item a row references whose pending quantity is > 0 and   *)
(* that has no Open reminder, exactly one new Delivery Reminder is created  *)
(* for it, with status Open, reminder_level First and pending_qty equal to  *)
(* that pending quantity; rows without a purchase order item reference      *)
(* create nothing and change nothing: every reminder created or changed     *)
(* belongs to an item some row references.                                  *)
C1_CreateOnFirstShortfall ==
    settings.enable_auto_reminders =>
      \A r \in 1..Len(receipts) : \A res \in update_reminders_result(r) :
        /\ \A i \in ItemsOf(r) :
              (PendingOf(i) > 0 /\ OpenFor(reminders, i) = {}) =>
                 \E n \in NewIn(res) :
                    /\ res.reminders[n].purchase_order_item = i
                    /\ res.reminders[n].status = "Open"
                    /\ res.reminders[n].reminder_level = "First"
                    /\ res.reminders[n].pending_qty = PendingOf(i)
                    /\ \A m \in NewIn(res) :
                          res.reminders[m].purchase_order_item = i => m = n
        /\ \A n \in NewIn(res) :
              res.reminders[n].purchase_order_item \in ItemsOf(r)
        /\ \A n \in DOMAIN reminders :
              /\ n \in DOMAIN res.reminders
              /\ res.reminders[n] # reminders[n]
                    => reminders[n].purchase_order_item \in ItemsOf(r)

\* A receipt with a row without reference and a row whose item is short and
\* has no Open reminder, and the call creates the reminder
C1_Witness ==
    /\ settings.enable_auto_reminders
    /\ \E r \in 1..Len(receipts) : \E i \in ItemsOf(r) :
          /\ PendingOf(i) > 0
          /\ OpenFor(reminders, i) = {}
          /\ \E k \in DOMAIN receipts[r].items :
                receipts[r].items[k].purchase_order_item = NoRef
          /\ \E res \in update_reminders_result(r) : \E n \in NewIn(res) :
                /\ res.reminders[n].purchase_order_item = i
                /\ res.reminders[n].status = "Open"

(* C2: Close on full receipt.  When a receipt is processed and the pending  *)
(* quantity of a row's purchase order item is <= 0, the Open reminder of    *)
(* that item (if any) becomes Closed, no new reminder is created for the    *)
(* item, and after the processing no Open reminder exists for it.           *)
C2_CloseOnFullReceipt ==
    settings.enable_auto_reminders =>
      \A r \in 1..Len(receipts) : \A res \in update_reminders_result(r) :
        \A i \in ItemsOf(r) :
           PendingOf(i) <= 0 =>
              /\ \A n \in OpenFor(reminders, i) :
                    res.reminders[n].status = "Closed"
              /\ \A n \in NewIn(res) : res.reminders[n].purchase_order_item # i
              /\ OpenFor(res.reminders, i) = {}

\* A receipt that completes an item whose reminder is still Open, and the
\* call closes it
C2_Witness ==
    /\ settings.enable_auto_reminders
    /\ \E r \in 1..Len(receipts) : \E i \in ItemsOf(r) :
          /\ PendingOf(i) <= 0
          /\ receipts[r].docstatus = 1
          /\ \E n \in OpenFor(reminders, i) : \E res \in update_reminders_result(r) :
                res.reminders[n].status = "Closed"

(* C3: Update on partial receipt.  Immediately after a receipt is processed *)
(* (enable_auto_reminders on), every Open reminder of a purchase order item *)
(* referenced by one of its rows has pending_qty equal to the ordered       *)
(* quantity of the item minus the quantities of all submitted (docstatus 1) *)
(* receipt rows for the item.                                               *)
C3_UpdateOnPartialReceipt ==
    settings.enable_auto_reminders =>
      \A r \in 1..Len(receipts) : \A res \in update_reminders_result(r) :
        \A i \in ItemsOf(r) : \A n \in OpenFor(res.reminders, i) :
           res.reminders[n].pending_qty = po_item_qty[i] - ReceivedQty(i)

\* An Open reminder whose pending_qty lags behind a further partial receipt,
\* with a cancelled receipt for the same item in the table, and the call
\* sets the pending quantity
C3_Witness ==
    /\ settings.enable_auto_reminders
    /\ \E r \in 1..Len(receipts) : \E i \in ItemsOf(r) : \E n \in OpenFor(reminders, i) :
          /\ PendingOf(i) > 0
          /\ reminders[n].pending_qty # PendingOf(i)
          /\ \E c \in 1..Len(receipts) :
                receipts[c].docstatus = 2 /\ i \in ItemsOf(c)
          /\ \E res \in update_reminders_result(r) :
                res.reminders[n].pending_qty = PendingOf(i)

(* C4: Pending-quantity invariant.  In every reachable state every Delivery *)
(* Reminder's pending_qty equals the ordered quantity of its purchase order *)
(* item minus the cumulative received quantity of the item.                 *)
C4_PendingQtyInvariant ==
    \A n \in DOMAIN reminders :
       reminders[n].pending_qty = PendingOf(reminders[n].purchase_order_item)

(* C5: Status is one-way.  Once a Delivery Reminder record has status       *)
(* Closed, no step of the reminder manager (receipt processing, PO          *)
(* cancellation, escalation sweep, cleanup) sets that record back to Open,  *)
(* also when an escalation sweep that loaded the reminder while it was Open *)
(* saves it after a concurrent close.                                       *)
C5_StatusOneWay ==
    [][ \A n \in DOMAIN reminders :
           (reminders[n].status = "Closed" /\ n \in DOMAIN reminders')
              => reminders'[n].status = "Closed" ]_vars

\* The sweep holds a document it loaded as Open, and the stored document has
\* been closed since
C5_Witness ==
    /\ esc.pc = "loaded"
    /\ esc.doc.status = "Open"
    /\ esc.doc.name \in DOMAIN reminders
    /\ reminders[esc.doc.name].status = "Closed"

\* The order of the levels, and the level one escalation leads to
LevelRank(level) ==
    CASE level = "First" -> 1 [] level = "Second" -> 2 [] level = "Final" -> 3

OneLevelUp(level) ==
    CASE level = "First" -> "Second"
      [] level = "Second" -> "Final"
      [] level = "Final" -> "Final"

\* One escalation of each reminder, and two in a row
C6_EscalationSteps ==
    \A n \in DOMAIN reminders :
       /\ reminders[n].reminder_level \in Levels
       /\ (reminders[n].status = "Open" /\ reminders[n].next_follow_up_date < today)
             => escalate_overdue(reminders)[n].reminder_level
                   = OneLevelUp(reminders[n].reminder_level)
       /\ Escalated(Escalated(reminders[n])).reminder_level = "Final"

(* C6: Escalation only advances the level.  Over any step a reminder's      *)
(* reminder_level never moves backwards in the order First < Second <       *)
(* Final; one escalation takes First to Second and Second to Final and      *)
(* leaves Final at Final, so two escalations of any reminder end at Final.  *)
C6_LevelOnlyAdvances ==
    /\ []C6_EscalationSteps
    /\ [][ \A n \in DOMAIN reminders \cap DOMAIN reminders' :
              LevelRank(reminders'[n].reminder_level)
                 >= LevelRank(reminders[n].reminder_level) ]_vars

\* An overdue reminder at Final, about to be escalated again
C6_Witness ==
    /\ settings.auto_escalate_enabled
    /\ \E n \in DOMAIN reminders :
          /\ reminders[n].reminder_level = "Final"
          /\ reminders[n].status = "Open"
          /\ reminders[n].next_follow_up_date < today

(* C7: Escalation only after a lapsed deadline.  An escalation sweep        *)
(* (auto_escalate_enabled on) changes exactly the reminders that are Open   *)
(* and whose next_follow_up_date is strictly before today: for each of them *)
(* priority becomes Critical and next_follow_up_date becomes today plus     *)
(* default_follow_up_days; Closed reminders and Open reminders whose        *)
(* follow-up date is today or later are left unchanged.                     *)
C7_EscalateOnlyLapsed ==
    settings.auto_escalate_enabled =>
      LET res == escalate_overdue_result
      IN  /\ DOMAIN res = DOMAIN reminders
          /\ \A n \in DOMAIN reminders :
                IF /\ reminders[n].status = "Open"
                   /\ reminders[n].next_follow_up_date < today
                THEN /\ res[n].priority = "Critical"
                     /\ res[n].next_follow_up_date
                           = today + settings.default_follow_up_days
                ELSE res[n] = reminders[n]

\* A lapsed Open reminder that is not yet Critical beside an Open reminder
\* whose follow-up date is today
C7_Witness ==
    /\ settings.auto_escalate_enabled
    /\ \E n, m \in DOMAIN reminders :
          /\ reminders[n].status = "Open"
          /\ reminders[n].next_follow_up_date < today
          /\ reminders[n].priority # "Critical"
          /\ reminders[m].status = "Open"
          /\ reminders[m].next_follow_up_date = today
          /\ escalate_overdue_result[n].priority = "Critical"

(* C8: Close on cancellation.  handle_po_cancellation for a purchase order  *)
(* sets every Open reminder of that purchase order to Closed, whatever      *)
(* enable_auto_reminders is, and leaves the reminders of every other        *)
(* purchase order unchanged.                                                *)
C8_CloseOnCancellation ==
    \A po \in PurchaseOrders :
       LET res == close_reminders_for_po(reminders, po)
       IN  /\ DOMAIN res = DOMAIN reminders
           /\ \A n \in DOMAIN reminders :
                 /\ (reminders[n].purchase_order = po /\ reminders[n].status = "Open")
                       => res[n].status = "Closed"
                 /\ reminders[n].purchase_order # po => res[n] = reminders[n]

\* With enable_auto_reminders off, an Open reminder on each purchase order
C8_Witness ==
    /\ ~settings.enable_auto_reminders
    /\ \E n, m \in DOMAIN reminders :
          /\ reminders[n].purchase_order = "PO-A"
          /\ reminders[n].status = "Open"
          /\ reminders[m].purchase_order = "PO-B"
          /\ reminders[m].status = "Open"
          /\ close_reminders_for_po(reminders, "PO-A")[n].status = "Closed"

\* The order of the tiers, and the tier of a pending percentage
TierRank(priority) ==
    CASE priority = "Low" -> 1 [] priority = "Medium" -> 2
      [] priority = "High" -> 3 [] priority = "Critical" -> 4

\* pending / ordered * 100 >= pct, in whole units
PctReaches(pending, ordered, pct) == 100 * pending >= pct * ordered

TierOf(pending, ordered) ==
    CASE PctReaches(pending, ordered, settings.critical_priority_percentage)
           -> "Critical"
      [] /\ ~PctReaches(pending, ordered, settings.critical_priority_percentage)
         /\ PctReaches(pending, ordered, settings.high_priority_percentage)
           -> "High"
      [] /\ ~PctReaches(pending, ordered, settings.critical_priority_percentage)
         /\ ~PctReaches(pending, ordered, settings.high_priority_percentage)
         /\ PctReaches(pending, ordered, settings.medium_priority_percentage)
           -> "Medium"
      [] OTHER -> "Low"

(* C9: Priority classifier.  A newly created reminder has priority Critical *)
(* when the pending percentage (pending_qty / ordered_qty * 100) is >= the  *)
(* critical threshold, otherwise High when >= the high threshold, otherwise *)
(* Medium when >= the medium threshold, otherwise Low; and for a fixed      *)
(* ordered quantity and any thresholds the tier does not decrease as        *)
(* pending_qty grows (Low < Medium < High < Critical).                      *)
C9_PriorityClassifier ==
    /\ \A r \in 1..Len(receipts) : \A res \in update_reminders_result(r) :
          \A n \in NewIn(res) :
             res.reminders[n].priority
                = TierOf(res.reminders[n].pending_qty,
                         po_item_qty[res.reminders[n].purchase_order_item])
    /\ \A i \in POItems : \A p1, p2 \in 0..MaxOrdered :
          p1 <= p2 => TierRank(calculate_priority(p1, i))
                         <= TierRank(calculate_priority(p2, i))

\* A receipt whose processing creates a reminder exactly at the medium
\* threshold, which is below the two others, and it is classified Medium
C9_Witness ==
    \E r \in 1..Len(receipts) : \E res \in update_reminders_result(r) :
       \E n \in NewIn(res) :
          LET doc == res.reminders[n]
              ordered == po_item_qty[doc.purchase_order_item]
          IN  /\ 100 * doc.pending_qty = settings.medium_priority_percentage * ordered
              /\ settings.medium_priority_percentage > 0
              /\ settings.high_priority_percentage > settings.medium_priority_percentage
              /\ settings.critical_priority_percentage > settings.high_priority_percentage
              /\ doc.priority = "Medium"

\* A call under a flag that is off returns the tables as they are
C10_GatedResults ==
    /\ ~settings.enable_auto_reminders =>
          \A r \in 1..Len(receipts) : \A res \in update_reminders_result(r) :
             res.reminders = reminders /\ res.notifications = notifications
    /\ ~settings.auto_escalate_enabled => escalate_overdue_result = reminders
    /\ ~settings.auto_cleanup_enabled => cleanup_closed_result = reminders
    /\ ~settings.send_daily_digest => send_daily_digest_result = <<>>

\* What a step does to the tables is done under the flag of its job: creating
\* a reminder or setting a pending quantity under enable_auto_reminders,
\* changing a level or a priority under auto_escalate_enabled, deleting under
\* auto_cleanup_enabled, mailing under send_daily_digest
C10_GatedSteps ==
    /\ ~settings.enable_auto_reminders =>
          /\ DOMAIN reminders' \subseteq DOMAIN reminders
          /\ notifications' = notifications
          /\ \A n \in DOMAIN reminders \cap DOMAIN reminders' :
                reminders'[n].pending_qty = reminders[n].pending_qty
    /\ ~settings.auto_escalate_enabled =>
          \A n \in DOMAIN reminders \cap DOMAIN reminders' :
             /\ reminders'[n].reminder_level = reminders[n].reminder_level
             /\ reminders'[n].priority = reminders[n].priority
             /\ reminders'[n].next_follow_up_date = reminders[n].next_follow_up_date
    /\ ~settings.auto_cleanup_enabled =>
          DOMAIN reminders \subseteq DOMAIN reminders'
    /\ ~settings.send_daily_digest => outbox' = outbox

(* C10: Settings flags gate the operations.  With enable_auto_reminders off *)
(* update_reminders_for_receipt creates, updates and closes nothing; with   *)
(* auto_escalate_enabled off escalate_overdue_reminders changes no          *)
(* reminder; with auto_cleanup_enabled off cleanup_closed_reminders deletes *)
(* nothing; with send_daily_digest off send_daily_reminder_digest sends no  *)
(* mail.  In each case the Delivery Reminders and all their fields are      *)
(* unchanged.                                                               *)
C10_FlagsGate == []C10_GatedResults /\ [][C10_GatedSteps]_vars

\* All four flags off while each job has something to do: a short item
\* without Open reminder, a lapsed Open reminder, a Closed reminder past the
\* retention window, an Open reminder and a digest recipient
C10_Witness ==
    /\ ~settings.enable_auto_reminders
    /\ ~settings.auto_escalate_enabled
    /\ ~settings.auto_cleanup_enabled
    /\ ~settings.send_daily_digest
    /\ \E r \in 1..Len(receipts) : \E i \in ItemsOf(r) :
          PendingOf(i) > 0 /\ OpenFor(reminders, i) = {}
    /\ \E n \in DOMAIN reminders : Overdue(reminders[n])
    /\ old_reminders(reminders) # {}
    /\ ~settings.archive_closed_reminders
    /\ send_daily_digest # <<>>

(* C11: Cleanup respects the retention window.  A cleanup sweep never       *)
(* deletes an Open reminder and never deletes a Closed reminder whose last  *)
(* modification is on or after today minus cleanup_after_days; the only     *)
(* records it can remove are Closed reminders last modified strictly before *)
(* that cutoff, and the records it keeps are kept as they are.              *)
C11_CleanupRetention ==
    LET res == cleanup_closed_result
    IN  /\ DOMAIN res \subseteq DOMAIN reminders
        /\ \A n \in DOMAIN reminders :
              IF n \in DOMAIN res THEN res[n] = reminders[n]
              ELSE /\ reminders[n].status = "Closed"
                   /\ reminders[n].modified < today - settings.cleanup_after_days
        /\ \A n \in DOMAIN reminders :
              \/ reminders[n].status = "Open"
              \/ reminders[n].modified >= today - settings.cleanup_after_days
              => n \in DOMAIN res

\* A deleting sweep that finds a Closed reminder modified on the cutoff day,
\* which it keeps, beside one modified before it, which it deletes
C11_Witness ==
    /\ settings.auto_cleanup_enabled
    /\ ~settings.archive_closed_reminders
    /\ \E n, m \in DOMAIN reminders :
          /\ reminders[n].status = "Closed"
          /\ reminders[n].modified = today - settings.cleanup_after_days
          /\ n \in DOMAIN cleanup_closed_result
          /\ reminders[m].status = "Closed"
          /\ reminders[m].modified < today - settings.cleanup_after_days
          /\ m \notin DOMAIN cleanup_closed_result

(* C12: Cleanup archives or deletes.  After a cleanup sweep with            *)
(* auto_cleanup_enabled on, every Closed reminder last modified before the  *)
(* retention cutoff has been deleted (archive_closed_reminders off) or has  *)
(* been marked as archived (archive_closed_reminders on), so that the       *)
(* record differs from one the sweep has not handled.                       *)
C12_ArchiveOrDelete ==
    settings.auto_cleanup_enabled =>
      LET res == cleanup_closed_result
      IN  \A n \in DOMAIN reminders :
             (/\ reminders[n].status = "Closed"
              /\ reminders[n].modified < today - settings.cleanup_after_days)
             => IF settings.archive_closed_reminders
                THEN n \in DOMAIN res /\ res[n] # reminders[n]
                ELSE n \notin DOMAIN res

\* The calls the lookup is meant to answer: no argument is missing
CompleteArgs == { args \in HistoryArgs : args[1] # "" /\ args[2] # "" /\ args[3] # "" }

(* C13: Purchase-history lookups are cached.  A call of                     *)
(* get_item_project_history with non-empty item_code, project and company   *)
(* while enable_purchase_history is on returns the list of matching history *)
(* rows (not an error value) and stores it in the cache, and a second call  *)
(* with the same arguments returns the same non-empty result from the cache *)
(* without running the query again.                                         *)
C13_LookupCached ==
    settings.enable_purchase_history =>
      /\ history_reply.args \in CompleteArgs =>
            history_reply.kind = "list"
      /\ \A args \in CompleteArgs :
            LET first == history_result(cache, args)
                second == history_result(first.cache, args)
            IN  /\ first.kind = "list"
                /\ first.rows = history_rows(args[1], args[2], args[3])
                /\ \E e \in first.cache : e.value = first.rows
                /\ first.rows # <<>> =>
                      /\ second.kind = "list"
                      /\ second.rows = first.rows
                      /\ ~second.queried

(* C14: Cache invalidation reaches the lookup cache.  The keys that         *)
(* _clear_cache_for_po deletes for a purchase order are the keys under      *)
(* which get_item_project_history reads and writes the history of the       *)
(* order's items, so that after clear_item_history_cache no entry remains   *)
(* under a key the lookup would read for the item.                          *)
C14_ClearReachesLookupCache ==
    \A po \in PurchaseOrders : \A i \in POItems : \A limit \in Limits :
       PurchaseOrderOf(i) = po =>
          LET key == lookup_cache_key(ItemCodeOf(i), ProjectOf(i), CompanyOf(po),
                                      effective_limit(limit))
          IN  /\ key \in cleared_keys(po)
              /\ cache_get(cache_delete(cache, cleared_keys(po)), key) = <<>>

\* The entries of digest_recipients that are not blank, and the Open reminders
NonBlank(entries) == { entries[k] : k \in DOMAIN entries } \ {"", " "}
OpenReminders == { n \in DOMAIN reminders : reminders[n].status = "Open" }

\* What a call of send_daily_reminder_digest hands to frappe.sendmail
C15_DigestResult ==
    LET mails == send_daily_digest_result
        due == /\ settings.send_daily_digest
               /\ NonBlank(settings.digest_recipients) # {}
               /\ OpenReminders # {}
    IN  IF due
        THEN /\ Len(mails) = 1
             /\ { mails[1].recipients[k] : k \in DOMAIN mails[1].recipients }
                   = NonBlank(settings.digest_recipients)
             /\ mails[1].open_count = Cardinality(OpenReminders)
             /\ mails[1].critical_count =
                   Cardinality({ n \in OpenReminders :
                                    reminders[n].priority = "Critical" })
        ELSE mails = <<>>

(* C15: Daily digest.  send_daily_reminder_digest sends exactly one email,  *)
(* to the configured non-blank recipients, if and only if send_daily_digest *)
(* is on, at least one non-blank recipient is configured and at least one   *)
(* reminder is Open; the email reports the number of Open reminders and the *)
(* number of Open reminders with priority Critical, and the step that sends *)
(* it changes no reminder.                                                  *)
C15_DailyDigest ==
    /\ []C15_DigestResult
    /\ [][ outbox' # outbox =>
              /\ outbox' = outbox \o send_daily_digest_result
              /\ reminders' = reminders ]_vars

\* A digest is due with a blank entry among the recipients, two Open
\* reminders of which one is Critical, and the call reports them
C15_Witness ==
    /\ settings.send_daily_digest
    /\ \E k \in DOMAIN settings.digest_recipients :
          settings.digest_recipients[k] = " "
    /\ Cardinality(OpenReminders) = 2
    /\ Len(send_daily_digest_result) = 1
    /\ send_daily_digest_result[1].open_count = 2
    /\ send_daily_digest_result[1].critical_count = 1
    /\ outbox = <<>>

\* The Notification Logs a call added
AddedBy(res) ==
    SubSeq(res.notifications, Len(notifications) + 1, Len(res.notifications))

\* How often reminder n is listed in the notifications logs
TimesListed(logs, n) ==
    Cardinality({ <<k, j>> \in (DOMAIN logs) \X (1..MaxReceipts + MaxReminders) :
                     j \in DOMAIN logs[k].listed /\ logs[k].listed[j] = n })

(* C16: Consolidated notifications.  Processing one receipt creates one     *)
(* Notification Log per distinct owner of the purchase orders of the        *)
(* reminders newly created by that processing; every newly created         *)
(* reminder is listed in exactly one of them, the one of its purchase       *)
(* order's owner, and no notification is created when the processing only   *)
(* updated or closed reminders.                                             *)
C16_ConsolidatedNotifications ==
    \A r \in 1..Len(receipts) : \A res \in update_reminders_result(r) :
       LET new == NewIn(res)
           added == AddedBy(res)
           owners == { OwnerOf(res.reminders[n].purchase_order) : n \in new }
       IN  /\ SubSeq(res.notifications, 1, Len(notifications)) = notifications
           /\ Len(added) = Cardinality(owners)
           /\ { added[k].for_user : k \in DOMAIN added } = owners
           /\ \A n \in new :
                 /\ TimesListed(added, n) = 1
                 /\ \E k \in DOMAIN added :
                       /\ \E j \in DOMAIN added[k].listed : added[k].listed[j] = n
                       /\ added[k].for_user = OwnerOf(res.reminders[n].purchase_order)
           /\ \A k \in DOMAIN added : \A j \in DOMAIN added[k].listed :
                 added[k].listed[j] \in new
           /\ new = {} => res.notifications = notifications

\* A receipt whose processing creates three reminders, two of them on the
\* purchase order of one owner, and notifies the two owners
C16_Witness ==
    \E r \in 1..Len(receipts) : \E res \in update_reminders_result(r) :
       /\ Cardinality(NewIn(res)) = 3
       /\ Len(AddedBy(res)) = 2
       /\ \E k \in DOMAIN AddedBy(res) : Len(AddedBy(res)[k].listed) = 2

(* C17: At most one Open reminder per purchase order item.  In every        *)
(* reachable state, for each purchase order item there is at most one       *)
(* Delivery Reminder with status Open, including when a single receipt has  *)
(* several lines for the same purchase order item and when two receipt      *)
(* processings for the same purchase order item interleave between the      *)
(* existing-reminder lookup and the insert.                                 *)
C17_OneOpenPerItem ==
    \A i \in POItems : Cardinality(OpenFor(reminders, i)) <= 1

(* C18: Escalation is idempotent within a day.  When default_follow_up_days *)
(* is >= 0, running the escalation sweep a second time on the same date,    *)
(* with no other operation in between, changes no reminder, because every   *)
(* reminder escalated by the first sweep has next_follow_up_date not before *)
(* today; a reminder's level therefore advances at most one step per lapsed *)
(* follow-up deadline.                                                      *)
C18_EscalationIdempotent ==
    (settings.auto_escalate_enabled /\ settings.default_follow_up_days >= 0) =>
      LET once == escalate_overdue_result
          twice == escalate_overdue(once)
      IN  /\ twice = once
          /\ \A n \in DOMAIN reminders :
                /\ Overdue(reminders[n]) =>
                      /\ once[n].next_follow_up_date >= today
                      /\ ~Overdue(once[n])
                /\ LevelRank(twice[n].reminder_level)
                      <= LevelRank(reminders[n].reminder_level) + 1

\* With default_follow_up_days >= 0, a lapsed reminder at First that the
\* first sweep takes to Second
C18_Witness ==
    /\ settings.auto_escalate_enabled
    /\ settings.default_follow_up_days >= 0
    /\ \E n \in DOMAIN reminders :
          /\ Overdue(reminders[n])
          /\ reminders[n].reminder_level = "First"
          /\ escalate_overdue_result[n].reminder_level = "Second"
          /\ escalate_overdue(escalate_overdue_result)[n].reminder_level = "Second"

(* C19: Open reminders have a positive pending quantity.  After any         *)
(* sequence of receipt processing, PO cancellation, escalation and cleanup  *)
(* operations, each run to completion, every Delivery Reminder with status  *)
(* Open has pending_qty > 0, since reminders are created and updated only   *)
(* on the pending_qty > 0 branch.                                           *)
C19_OpenHasPending ==
    /\ \A n \in DOMAIN reminders :
          reminders[n].status = "Open" => reminders[n].pending_qty > 0
    /\ \A r \in 1..Len(receipts) : \A res \in update_reminders_result(r) :
          \A n \in DOMAIN res.reminders :
             res.reminders[n].status = "Open" => res.reminders[n].pending_qty > 0

\* An escalated Open reminder with one unit pending whose item is received in
\* full by a receipt that is not processed yet; the processing closes it
C19_Witness ==
    /\ settings.enable_auto_reminders
    /\ \E n \in DOMAIN reminders :
          /\ reminders[n].status = "Open"
          /\ reminders[n].pending_qty = 1
          /\ reminders[n].reminder_level # "First"
          /\ PendingOf(reminders[n].purchase_order_item) = 0
          /\ \E r \in 1..Len(receipts) : \A res \in update_reminders_result(r) :
                res.reminders[n].status = "Closed"

(* C20: Updating an existing reminder on a partial receipt changes only its *)
(* pending_qty: its status, reminder_level, priority, next_follow_up_date,  *)
(* expected_delivery_date and triggering_receipt are left unchanged; the    *)
(* priority is not recomputed from the new pending percentage and a         *)
(* previous escalation is not undone.                                       *)
C20_UpdateFrame ==
    settings.enable_auto_reminders =>
      \A r \in 1..Len(receipts) : \A res \in update_reminders_result(r) :
        \A i \in ItemsOf(r) : \A n \in OpenFor(reminders, i) :
           PendingOf(i) > 0 =>
              LET old == reminders[n]
                  new == res.reminders[n]
              IN  /\ new.pending_qty = PendingOf(i)
                  /\ new.status = old.status
                  /\ new.reminder_level = old.reminder_level
                  /\ new.priority = old.priority
                  /\ new.next_follow_up_date = old.next_follow_up_date
                  /\ new.expected_delivery_date = old.expected_delivery_date
                  /\ new.triggering_receipt = old.triggering_receipt
                  /\ new = [old EXCEPT !.pending_qty = new.pending_qty,
                                       !.modified = new.modified]

\* An escalated reminder (Second, Critical) of another receipt, whose new
\* pending quantity would classify below Critical, and the call sets the
\* pending quantity
C20_Witness ==
    /\ settings.enable_auto_reminders
    /\ \E r \in 1..Len(receipts) : \E i \in ItemsOf(r) : \E n \in OpenFor(reminders, i) :
          /\ PendingOf(i) > 0
          /\ reminders[n].pending_qty # PendingOf(i)
          /\ reminders[n].reminder_level = "Second"
          /\ reminders[n].priority = "Critical"
          /\ calculate_priority(PendingOf(i), i) # "Critical"
          /\ reminders[n].triggering_receipt # r
          /\ \E res \in update_reminders_result(r) :
                /\ res.reminders[n].pending_qty = PendingOf(i)
                /\ res.reminders[n].priority = "Critical"

============================================================================
